---- MODULE Spec2Model ----
(***************************************************************************)
(* Presence / room registry of src/server/server.js (a socket.io relay     *)
(* backed by MySQL), as a state machine.                                   *)
(*                                                                         *)
(* Every `await pool.execute(...)` is a suspension point: the part of a    *)
(* handler before the await is one action, the part after it another, and  *)
(* the suspended invocation sits in `inflight` in between.  A statement's  *)
(* effect on the database and the resumption of the handler that awaits it *)
(* are one step.                                                           *)
(*                                                                         *)
(* Time advances in ticks of one grace period; a tick on which the         *)
(* setInterval callback runs is a Sweep, any other a Tick (the phase of    *)
(* the interval against the socket events is arbitrary, so any tick may be *)
(* the sweep's).  lastActivity[e] holds the number of sweeps that ran      *)
(* since Date.now() was stored, which is all the sweep (its only reader)   *)
(* can tell about it: at a sweep, n earlier sweeps since the store mean an *)
(* age in (n, n+1] sweep intervals.                                        *)
(***************************************************************************)
EXTENDS Integers, FiniteSets, Sequences, TLC

\* ------------------------------------------------------------ universe
SocketIds == <<"s1", "s2">>      \* socket ids, in the order they connect
Sockets == {SocketIds[i] : i \in 1..Len(SocketIds)}
Emails == {"a", "b"}             \* payload identities
Groups == {"g1"}                 \* group ids
None == "-"

MaxInFlight == 1                 \* suspended socket-event handlers at a time
MaxTimers == 2                   \* pending grace timers at a time

\* ------------------------------------------------------------ program constants
INACTIVITY_TIMEOUT == 300000
GRACE_PERIOD == 10000
SWEEP_INTERVAL == 60000

TickMs == GRACE_PERIOD
GraceTicks == GRACE_PERIOD \div TickMs
\* sweeps after which an untouched lastActivity entry is older than the timeout
StaleSweeps == (INACTIVITY_TIMEOUT + SWEEP_INTERVAL - 1) \div SWEEP_INTERVAL

VARIABLES
    userConnBucket,   \* email -> set of socket ids            (line 47)
    connections,      \* socket id -> email                    (line 48)
    lastActivity,     \* email -> sweeps seen since Date.now() (line 49)
    groupRooms,       \* group id -> set of socket ids         (line 50)
    sock,             \* socket -> "new" | "open" | "closed"   (io.sockets.sockets)
    rooms,            \* socket -> groups it is subscribed to  (socket.join / leave)
    students,         \* emails with a row in students, is_deleted = 0
    status,           \* students.status per email
    inflight,         \* handler invocations suspended at an await
    timers,           \* pending setTimeout callbacks of disconnect, oldest first
    emitted,          \* events emitted by the last step
    last,             \* the last step taken
    announced         \* email -> markOffline broadcast offline since the last login

vars == <<userConnBucket, connections, lastActivity, groupRooms, sock, rooms,
          students, status, inflight, timers, emitted, last, announced>>

registries == <<userConnBucket, connections, lastActivity, groupRooms>>

\* ------------------------------------------------------------ JS objects
Delete(f, k) == [x \in DOMAIN f \ {k} |-> f[x]]
Put(f, k, v) == [x \in DOMAIN f \cup {k} |-> IF x = k THEN v ELSE f[x]]
EmptyObject == [x \in {} |-> {}]

Open == {s \in Sockets : sock[s] = "open"}

\* group_members rows with is_active = 1
ActiveMembers == [g \in Groups |-> {"a"}]
ActiveRoomsFor(e) == {g \in Groups : e \in ActiveMembers[g]}

\* what a step did: the handler, its socket and payload, the outcome of the
\* statement it awaited, the stored status before it, the e-mails it named
Step(op, s, e, g, r) ==
    [op |-> op, socket |-> s, email |-> e, group |-> g, res |-> r, was |-> None,
     members |-> {}]

\* how an awaited UPDATE ended: it threw, it matched no row, or it matched one
Outcome(ok, rows) == IF ~ok THEN "error" ELSE IF rows = 0 THEN "norow" ELSE "ok"
Task(op, s, e, g, pc, tag, re) ==
    [op |-> op, socket |-> s, email |-> e, group |-> g, pc |-> pc, tag |-> tag,
     reconnect |-> re]

StatusUpdate(e, st) ==
    [event |-> "status_update", email |-> e, status |-> st, group |-> None, to |-> Open]
RoomEvent(ev, g) ==
    [event |-> ev, email |-> None, status |-> None, group |-> g,
     to |-> {s \in Open : g \in rooms[s]}]

\* affectedRows counting only the rows whose value changed
AffectedRowsChanged(e, st) == IF e \in students /\ status[e] # st THEN 1 ELSE 0

\* result.affectedRows of UPDATE students SET status = st WHERE email = e AND
\* is_deleted = 0: the rows the WHERE clause matched
AffectedRows(e, st) == IF e \in students THEN 1 ELSE 0

\* the UPDATE's effect on the table
Written(e, st) == IF e \in students THEN [status EXCEPT ![e] = st] ELSE status

\* the same filter without `delete groupRooms[groupId]`
RemoveFromGroupRoomsKeeping(gr, s) == [g \in DOMAIN gr |-> gr[g] \ {s}]

\* groupRooms[g] = groupRooms[g].filter(id => id !== s); delete when empty, all g
RemoveFromGroupRooms(gr, s) ==
    LET hit == {g \in DOMAIN gr : gr[g] \ {s} # {}}
    IN  [g \in hit |-> gr[g] \ {s}]

\* if (!groupRooms[g]) groupRooms[g] = []; if (!includes) push
AddToGroupRooms(gr, g, s) ==
    IF g \in DOMAIN gr THEN Put(gr, g, gr[g] \cup {s}) ELSE Put(gr, g, {s})

RECURSIVE AddAllToGroupRooms(_, _, _)
AddAllToGroupRooms(gr, gs, s) ==
    IF gs = {} THEN gr
    ELSE LET g == CHOOSE x \in gs : TRUE
         IN  AddAllToGroupRooms(AddToGroupRooms(gr, g, s), gs \ {g}, s)

GracePending(e) ==
    /\ e \in DOMAIN userConnBucket
    /\ userConnBucket[e] = {}
    /\ \E i \in 1..Len(timers) : timers[i].email = e

HandlerSlotFree == Cardinality({t \in inflight : t.op # "markOffline"}) < MaxInFlight

\* ------------------------------------------------------------ initial state
Fresh ==
    /\ userConnBucket = EmptyObject
    /\ connections = EmptyObject
    /\ lastActivity = EmptyObject
    /\ groupRooms = EmptyObject
    /\ sock = [s \in Sockets |-> "new"]
    /\ rooms = [s \in Sockets |-> {}]
    /\ status = [e \in Emails |-> "offline"]
    /\ inflight = {}
    /\ timers = <<>>
    /\ emitted = {}
    /\ last = Step("init", None, None, None, None)
    /\ announced = [e \in Emails |-> FALSE]

\* "a" has a row in students, "b" has none
Init == Fresh /\ students = {"a"}

\* both have a row
InitTwo == Fresh /\ students = {"a", "b"}

\* ------------------------------------------------------------ transport
\* io.on("connection"): sockets connect in the order of their ids
Connect(s) ==
    /\ sock[s] = "new"
    /\ \A i, j \in 1..Len(SocketIds) :
          (i < j /\ SocketIds[j] = s) => sock[SocketIds[i]] # "new"
    /\ sock' = [sock EXCEPT ![s] = "open"]
    /\ emitted' = {}
    /\ last' = Step("connection", s, None, None, None)
    /\ UNCHANGED <<registries, rooms, students, status, inflight, timers, announced>>

\* ------------------------------------------------------------ markOffline
\* markOffline(email) up to its await
CallMarkOffline(tasks, e, tag, re) ==
    tasks \cup {Task("markOffline", None, e, None, "update", tag, re)}

\* markOffline after the await; ok: the UPDATE did not throw
MarkOfflineDone(t, ok) ==
    /\ t \in inflight
    /\ t.op = "markOffline"
    /\ inflight' = inflight \ {t}
    /\ IF ok
       THEN /\ status' = Written(t.email, "offline")
            /\ IF AffectedRows(t.email, "offline") > 0
               THEN /\ emitted' = {StatusUpdate(t.email, "offline")}
                    /\ announced' = [announced EXCEPT ![t.email] = TRUE]
               ELSE /\ emitted' = {}
                    /\ UNCHANGED announced
       ELSE /\ emitted' = {}
            /\ UNCHANGED <<status, announced>>
    /\ last' = Step("markOffline", None, t.email, None,
                    Outcome(ok, AffectedRows(t.email, "offline")))
    /\ UNCHANGED <<registries, sock, rooms, students, timers>>

\* ------------------------------------------------------------ user_login
UserLogin(s, e) ==
    /\ sock[s] = "open"
    /\ HandlerSlotFree
    /\ LET t == Task("user_login", s, e, None, "update", None, GracePending(e))
       IN  /\ t \notin inflight
           /\ inflight' = inflight \cup {t}
    /\ emitted' = {}
    /\ last' = Step("user_login.arrive", s, e, None, None)
    /\ UNCHANGED <<registries, sock, rooms, students, status, timers, announced>>

\* after the UPDATE: broadcast, track the socket, query the groups
LoginUpdateDone(t, ok) ==
    /\ t \in inflight
    /\ t.op = "user_login"
    /\ t.pc = "update"
    /\ IF ok
       THEN /\ status' = Written(t.email, "online")
            /\ IF AffectedRows(t.email, "online") > 0
               THEN /\ emitted' = {StatusUpdate(t.email, "online")}
                    /\ userConnBucket' =
                         IF t.email \in DOMAIN userConnBucket
                         THEN Put(userConnBucket, t.email,
                                  userConnBucket[t.email] \cup {t.socket})
                         ELSE Put(userConnBucket, t.email, {t.socket})
                    /\ connections' = Put(connections, t.socket, t.email)
                    /\ lastActivity' = Put(lastActivity, t.email, 0)
                    /\ inflight' = (inflight \ {t}) \cup {[t EXCEPT !.pc = "select"]}
                    /\ announced' = [announced EXCEPT ![t.email] = FALSE]
               ELSE /\ emitted' = {}
                    /\ inflight' = inflight \ {t}
                    /\ UNCHANGED <<userConnBucket, connections, lastActivity, announced>>
       ELSE /\ emitted' = {}
            /\ inflight' = inflight \ {t}
            /\ UNCHANGED <<userConnBucket, connections, lastActivity, status, announced>>
    /\ last' = [Step("user_login", t.socket, t.email, None,
                     Outcome(ok, AffectedRows(t.email, "online")))
                  EXCEPT !.was = status[t.email]]
    /\ UNCHANGED <<groupRooms, sock, rooms, students, timers>>

\* after the SELECT of the user's groups: join each room
LoginSelectDone(t, ok) ==
    /\ t \in inflight
    /\ t.op = "user_login"
    /\ t.pc = "select"
    /\ inflight' = inflight \ {t}
    /\ emitted' = {}
    /\ IF ok
       THEN /\ rooms' = [rooms EXCEPT ![t.socket] = @ \cup ActiveRoomsFor(t.email)]
            /\ groupRooms' = AddAllToGroupRooms(groupRooms, ActiveRoomsFor(t.email),
                                                t.socket)
            /\ last' = Step("user_login.groups", t.socket, t.email, None, "ok")
       ELSE /\ last' = Step("user_login.groups", t.socket, t.email, None, "error")
            /\ UNCHANGED <<rooms, groupRooms>>
    /\ UNCHANGED <<userConnBucket, connections, lastActivity, sock, students, status,
                   timers, announced>>

\* ------------------------------------------------------------ user_heartbeat
UserHeartbeat(s, e) ==
    /\ sock[s] = "open"
    /\ emitted' = {}
    /\ IF e \in DOMAIN userConnBucket
       THEN /\ HandlerSlotFree
            /\ LET t == Task("user_heartbeat", None, e, None, "update", None, FALSE)
               IN  /\ t \notin inflight
                   /\ inflight' = inflight \cup {t}
            /\ lastActivity' = Put(lastActivity, e, 0)
       ELSE UNCHANGED <<inflight, lastActivity>>
    /\ last' = Step("user_heartbeat", s, e, None, None)
    /\ UNCHANGED <<userConnBucket, connections, groupRooms, sock, rooms, students, status,
                   timers, announced>>

HeartbeatDone(t, ok) ==
    /\ t \in inflight
    /\ t.op = "user_heartbeat"
    /\ inflight' = inflight \ {t}
    /\ IF ok
       THEN /\ status' = Written(t.email, "online")
            /\ IF AffectedRows(t.email, "online") > 0
               THEN emitted' = {StatusUpdate(t.email, "online")}
               ELSE emitted' = {}
       ELSE /\ emitted' = {}
            /\ UNCHANGED status
    /\ last' = Step("user_heartbeat.done", None, t.email, None,
                    Outcome(ok, AffectedRows(t.email, "online")))
    /\ UNCHANGED <<registries, sock, rooms, students, timers, announced>>

\* ------------------------------------------------------------ user_logout
UserLogout(s, e) ==
    /\ sock[s] = "open"
    /\ HandlerSlotFree
    /\ LET t == Task("user_logout", s, e, None, "update", None, FALSE)
       IN  /\ t \notin inflight
           /\ inflight' = inflight \cup {t}
    /\ emitted' = {}
    /\ last' = Step("user_logout", s, e, None, None)
    /\ UNCHANGED <<registries, sock, rooms, students, status, timers, announced>>

\* a logout that ignores how the UPDATE ended
LogoutAppliesAlways(ok, rows) == TRUE

\* whether the handler goes on to broadcast and to untrack the socket
LogoutApplies(ok, rows) == ok /\ rows > 0

LogoutDone(t, ok) ==
    /\ t \in inflight
    /\ t.op = "user_logout"
    /\ inflight' = inflight \ {t}
    /\ status' = IF ok THEN Written(t.email, "offline") ELSE status
    /\ IF LogoutApplies(ok, AffectedRows(t.email, "offline"))
       THEN /\ emitted' = {StatusUpdate(t.email, "offline")}
            /\ IF t.email \in DOMAIN userConnBucket
               THEN LET left == userConnBucket[t.email] \ {t.socket}
                    IN  IF left = {}
                        THEN /\ userConnBucket' = Delete(userConnBucket, t.email)
                             /\ lastActivity' = Delete(lastActivity, t.email)
                        ELSE /\ userConnBucket' = Put(userConnBucket, t.email, left)
                             /\ UNCHANGED lastActivity
               ELSE UNCHANGED <<userConnBucket, lastActivity>>
            /\ groupRooms' = RemoveFromGroupRooms(groupRooms, t.socket)
            /\ connections' = Delete(connections, t.socket)
       ELSE /\ emitted' = {}
            /\ UNCHANGED registries
    /\ last' = Step("user_logout.done", t.socket, t.email, None,
                    Outcome(ok, AffectedRows(t.email, "offline")))
    /\ UNCHANGED <<sock, rooms, students, timers, announced>>

\* ------------------------------------------------------------ join_group / leave_group
JoinGroup(s, e, g) ==
    /\ sock[s] = "open"
    /\ HandlerSlotFree
    /\ LET t == Task("join_group", s, e, g, "select", None, FALSE)
       IN  /\ t \notin inflight
           /\ inflight' = inflight \cup {t}
    /\ emitted' = {}
    /\ last' = Step("join_group", s, e, g, None)
    /\ UNCHANGED <<registries, sock, rooms, students, status, timers, announced>>

JoinGroupDone(t, ok) ==
    /\ t \in inflight
    /\ t.op = "join_group"
    /\ inflight' = inflight \ {t}
    /\ emitted' = {}
    /\ IF ok /\ t.email \in ActiveMembers[t.group]
       THEN /\ rooms' = [rooms EXCEPT ![t.socket] = @ \cup {t.group}]
            /\ groupRooms' = AddToGroupRooms(groupRooms, t.group, t.socket)
       ELSE UNCHANGED <<rooms, groupRooms>>
    /\ last' = Step("join_group.done", t.socket, t.email, t.group,
                    IF ok THEN "ok" ELSE "error")
    /\ UNCHANGED <<userConnBucket, connections, lastActivity, sock, students, status,
                   timers, announced>>

LeaveGroup(s, g) ==
    /\ sock[s] = "open"
    /\ rooms' = [rooms EXCEPT ![s] = @ \ {g}]
    /\ groupRooms' =
         IF g \in DOMAIN groupRooms
         THEN IF groupRooms[g] \ {s} = {} THEN Delete(groupRooms, g)
              ELSE Put(groupRooms, g, groupRooms[g] \ {s})
         ELSE groupRooms
    /\ emitted' = {}
    /\ last' = [Step("leave_group", s, None, g, None)
                  EXCEPT !.was = IF g \in DOMAIN groupRooms /\ s \in groupRooms[g]
                                 THEN "listed" ELSE None]
    /\ UNCHANGED <<userConnBucket, connections, lastActivity, sock, students, status,
                   inflight, timers, announced>>

\* ------------------------------------------------------------ group_message
\* the handler never reads socket.id
GroupMessage(s, e, g) ==
    /\ sock[s] = "open"
    /\ HandlerSlotFree
    /\ LET t == Task("group_message", None, e, g, "check", None, FALSE)
       IN  /\ t \notin inflight
           /\ inflight' = inflight \cup {t}
    /\ emitted' = {}
    /\ last' = Step("group_message", s, e, g, None)
    /\ UNCHANGED <<registries, sock, rooms, students, status, timers, announced>>

\* after the membership SELECT: a non-member's message is dropped
GroupMessageChecked(t, ok) ==
    /\ t \in inflight
    /\ t.op = "group_message"
    /\ t.pc = "check"
    /\ inflight' = IF ok /\ t.email \in ActiveMembers[t.group]
                   THEN (inflight \ {t}) \cup {[t EXCEPT !.pc = "insert"]}
                   ELSE inflight \ {t}
    /\ emitted' = {}
    /\ last' = Step("group_message.check", None, t.email, t.group,
                    IF ok THEN "ok" ELSE "error")
    /\ UNCHANGED <<registries, sock, rooms, students, status, timers, announced>>

\* a handler that goes on whatever the INSERT did
InsertAppliesAlways(ok, rows) == TRUE

\* whether the handler goes on to broadcast: the INSERT did not throw and
\* result.affectedRows > 0
InsertApplies(ok, rows) == ok /\ rows > 0

\* after the INSERT INTO messages, which adds one row unless it throws
GroupMessageStored(t, ok) ==
    /\ t \in inflight
    /\ t.op = "group_message"
    /\ t.pc = "insert"
    /\ inflight' = IF InsertApplies(ok, 1)
                   THEN (inflight \ {t}) \cup
                           {[t EXCEPT !.pc = "name", !.tag = Outcome(ok, 1)]}
                   ELSE inflight \ {t}
    /\ emitted' = {}
    /\ last' = Step("group_message.insert", None, t.email, t.group, Outcome(ok, 1))
    /\ UNCHANGED <<registries, sock, rooms, students, status, timers, announced>>

\* after getSenderName, which catches its own errors
GroupMessageNamed(t) ==
    /\ t \in inflight
    /\ t.op = "group_message"
    /\ t.pc = "name"
    /\ inflight' = (inflight \ {t}) \cup {[t EXCEPT !.pc = "touch"]}
    /\ emitted' = {}
    /\ last' = Step("group_message.name", None, t.email, t.group, None)
    /\ UNCHANGED <<registries, sock, rooms, students, status, timers, announced>>

\* after UPDATE groups SET updated_at: emit to the room, unless the UPDATE threw
GroupMessageTouched(t, ok) ==
    /\ t \in inflight
    /\ t.op = "group_message"
    /\ t.pc = "touch"
    /\ inflight' = inflight \ {t}
    /\ emitted' = IF ok THEN {RoomEvent("group_message", t.group)} ELSE {}
    /\ last' = Step("group_message.emit", None, t.email, t.group,
                    IF ok THEN "ok" ELSE "error")
    /\ UNCHANGED <<registries, sock, rooms, students, status, timers, announced>>

\* ------------------------------------------------------------ POST /emit_group_created
\* the sockets the handler joins to the room: every tracked socket of a listed
\* member or of the creator that io.sockets.sockets still knows
Admitted(members, created_by) ==
    {s \in Sockets : /\ sock[s] = "open"
                     /\ \E e \in members \cup {created_by} :
                           e \in DOMAIN userConnBucket /\ s \in userConnBucket[e]}

\* the request names the members that group_members holds for the group: the
\* management API announces the rows it has stored
EmitGroupCreated(g, members, created_by) ==
    LET add == Admitted(members, created_by)
    IN  /\ members \cup {created_by} = ActiveMembers[g]
        /\ rooms' = [s \in Sockets |-> IF s \in add THEN rooms[s] \cup {g} ELSE rooms[s]]
        /\ groupRooms' =
             IF add = {} THEN groupRooms
             ELSE IF g \in DOMAIN groupRooms THEN Put(groupRooms, g, groupRooms[g] \cup add)
             ELSE Put(groupRooms, g, add)
        /\ emitted' = {[event |-> "group_created", email |-> None, status |-> None,
                        group |-> g, to |-> {s \in Open : g \in rooms'[s]}]}
        /\ last' = [Step("emit_group_created", None, created_by, g, None)
                      EXCEPT !.members = members]
        /\ UNCHANGED <<userConnBucket, connections, lastActivity, sock, students, status,
                       inflight, timers, announced>>

\* ------------------------------------------------------------ disconnect
\* a lookup that falls back on an identity of the session registry
OwnerOfAny(s) ==
    IF s \in DOMAIN connections THEN connections[s]
    ELSE IF DOMAIN userConnBucket # {} THEN CHOOSE e \in DOMAIN userConnBucket : TRUE
    ELSE None

\* const email = connections[socket.id]
OwnerOf(s) == IF s \in DOMAIN connections THEN connections[s] ELSE None

\* a disconnect that starts no timer
ArmedNever(ts, email) == ts

\* setTimeout(() => {...}, 10000)
Armed(ts, email) == Append(ts, [email |-> email, left |-> GraceTicks])

Disconnect(s) ==
    /\ sock[s] = "open"
    /\ sock' = [sock EXCEPT ![s] = "closed"]
    /\ rooms' = [rooms EXCEPT ![s] = {}]
    /\ emitted' = {}
    /\ IF OwnerOf(s) # None
       THEN LET email == OwnerOf(s)
                left == IF email \in DOMAIN userConnBucket
                        THEN userConnBucket[email] \ {s} ELSE {}
                arm == email \in DOMAIN userConnBucket /\ left = {}
            IN  /\ arm => Len(timers) < MaxTimers
                /\ userConnBucket' =
                     IF email \in DOMAIN userConnBucket
                     THEN Put(userConnBucket, email, left) ELSE userConnBucket
                /\ timers' = IF arm THEN Armed(timers, email) ELSE timers
                /\ groupRooms' = RemoveFromGroupRooms(groupRooms, s)
                /\ connections' = Delete(connections, s)
       ELSE UNCHANGED <<userConnBucket, connections, groupRooms, timers>>
    /\ last' = Step("disconnect", s, OwnerOf(s), None, None)
    /\ UNCHANGED <<lastActivity, students, status, inflight, announced>>

\* the setTimeout callback of disconnect; timers of equal delay fire in order
GraceFire ==
    /\ timers # <<>>
    /\ Head(timers).left = 0
    /\ timers' = Tail(timers)
    /\ emitted' = {}
    /\ LET email == Head(timers).email
           re == \E t \in inflight :
                    /\ t.op = "user_login" /\ t.email = email /\ t.pc = "update"
                    /\ t.reconnect /\ sock[t.socket] = "open"
       IN  IF email \in DOMAIN userConnBucket /\ userConnBucket[email] = {}
           THEN /\ Task("markOffline", None, email, None, "update", "grace", re)
                     \notin inflight
                /\ inflight' = CallMarkOffline(inflight, email, "grace", re)
                /\ lastActivity' = Delete(lastActivity, email)
                /\ userConnBucket' = Delete(userConnBucket, email)
           ELSE UNCHANGED <<inflight, lastActivity, userConnBucket>>
    /\ last' = Step("graceTimer", None, Head(timers).email, None, None)
    /\ UNCHANGED <<connections, groupRooms, sock, rooms, students, status, announced>>

\* ------------------------------------------------------------ time
Aged(ts) == [i \in 1..Len(ts) |-> [ts[i] EXCEPT !.left = @ - 1]]
NoneDue == \A i \in 1..Len(timers) : timers[i].left > 0

\* a grace period passes without the interval firing
Tick ==
    /\ timers # <<>>
    /\ NoneDue
    /\ timers' = Aged(timers)
    /\ emitted' = {}
    /\ last' = Step("tick", None, None, None, None)
    /\ UNCHANGED <<registries, sock, rooms, students, status, inflight, announced>>

\* the test of the setInterval callback
Inactive(e) ==
    /\ e \in DOMAIN lastActivity
    /\ lastActivity[e] * SWEEP_INTERVAL >= INACTIVITY_TIMEOUT
    /\ e \in DOMAIN userConnBucket
    /\ userConnBucket[e] = {}

\* a callback that forgets `delete lastActivity[email]`
SweptKeeping(hit) ==
    [e \in DOMAIN lastActivity |->
        IF lastActivity[e] < StaleSweeps THEN lastActivity[e] + 1 ELSE lastActivity[e]]

\* lastActivity after the callback: the entries it deleted are gone, the others
\* have seen one more sweep
Swept(hit) ==
    [e \in DOMAIN lastActivity \ hit |->
        IF lastActivity[e] < StaleSweeps THEN lastActivity[e] + 1 ELSE lastActivity[e]]

\* the setInterval callback
Sweep ==
    /\ NoneDue
    /\ timers' = Aged(timers)
    /\ emitted' = {}
    /\ LET hit == {e \in Emails : Inactive(e)}
       IN  /\ \A e \in hit :
                Task("markOffline", None, e, None, "update", "sweep", FALSE) \notin inflight
           /\ inflight' = inflight \cup
                 {Task("markOffline", None, e, None, "update", "sweep", FALSE) : e \in hit}
           /\ lastActivity' = Swept(hit)
           /\ last' = [Step("sweep", None, None, None, None) EXCEPT !.members = hit]
    /\ UNCHANGED <<userConnBucket, connections, groupRooms, sock, rooms, students, status,
                   announced>>

\* everything but the sweep
Events ==
    \/ \E s \in Sockets : Connect(s)
    \/ \E s \in Sockets : Disconnect(s)
    \/ \E s \in Sockets, e \in Emails : UserLogin(s, e)
    \/ \E t \in inflight, ok \in BOOLEAN : LoginUpdateDone(t, ok)
    \/ \E t \in inflight, ok \in BOOLEAN : LoginSelectDone(t, ok)
    \/ \E s \in Sockets, e \in Emails : UserHeartbeat(s, e)
    \/ \E t \in inflight, ok \in BOOLEAN : HeartbeatDone(t, ok)
    \/ \E s \in Sockets, e \in Emails : UserLogout(s, e)
    \/ \E t \in inflight, ok \in BOOLEAN : LogoutDone(t, ok)
    \/ \E s \in Sockets, e \in Emails, g \in Groups : JoinGroup(s, e, g)
    \/ \E t \in inflight, ok \in BOOLEAN : JoinGroupDone(t, ok)
    \/ \E s \in Sockets, g \in Groups : LeaveGroup(s, g)
    \/ \E s \in Sockets, e \in Emails, g \in Groups : GroupMessage(s, e, g)
    \/ \E t \in inflight, ok \in BOOLEAN : GroupMessageChecked(t, ok)
    \/ \E t \in inflight, ok \in BOOLEAN : GroupMessageStored(t, ok)
    \/ \E t \in inflight : GroupMessageNamed(t)
    \/ \E t \in inflight, ok \in BOOLEAN : GroupMessageTouched(t, ok)
    \/ \E g \in Groups, members \in SUBSET Emails, created_by \in Emails :
          EmitGroupCreated(g, members, created_by)
    \/ \E t \in inflight, ok \in BOOLEAN : MarkOfflineDone(t, ok)
    \/ GraceFire
    \/ Tick

Next == Events \/ Sweep

\* one identity with a row, every action
Spec == Init /\ [][Next]_vars

\* two identities with a row.  The sweep is left out: it reads and writes
\* lastActivity and calls markOffline, neither of which any handler reads, so
\* the registries reach the same values without it.
SpecTwo == InitTwo /\ [][Events]_vars

\* Spec with the scheduling the event loop and the pool give: time passes, a due
\* setTimeout callback runs, and the UPDATE of markOffline settles
TimersFair ==
    /\ WF_vars(Tick)
    /\ WF_vars(GraceFire)
    /\ WF_vars(\E t \in inflight, ok \in BOOLEAN : MarkOfflineDone(t, ok))

SpecFair == Init /\ [][Next]_vars /\ TimersFair

\* ============================================================ properties
Finished(t) == t \in inflight /\ t \notin inflight'
IsStatus(ev, e, st) == ev.event = "status_update" /\ ev.email = e /\ ev.status = st
LoginWritten(t) == t.op = "user_login" /\ t.pc = "update" /\ Finished(t)
InNoRegistry(s) ==
    /\ s \notin DOMAIN connections
    /\ \A e \in DOMAIN userConnBucket : s \notin userConnBucket[e]
    /\ \A g \in DOMAIN groupRooms : s \notin groupRooms[g]

\* C1: when the last tracked connection of an identity closed and a
\* user_login for it arrived on a new, still open connection before the grace
\* timer fired, the markOffline call of that timer broadcasts no
\* status_update(offline) for the identity.
C1_ReconnectWithinGraceKeepsOnline ==
    [][\A t \in inflight :
          (t.op = "markOffline" /\ t.tag = "grace" /\ t.reconnect /\ Finished(t))
             => \A ev \in emitted' : ~IsStatus(ev, t.email, "offline")]_vars

\* C2: between two logins of an identity, markOffline (called by the grace timer
\* or by the sweep) broadcasts status_update(offline) for it at most once.
C2_OfflineBroadcastOnce ==
    [][\A t \in inflight :
          (/\ t.op = "markOffline" /\ Finished(t)
           /\ \E ev \in emitted' : IsStatus(ev, t.email, "offline"))
             => ~announced[t.email]]_vars

C4_LoginBroadcastsOnlyOnChange ==
    [][\A t \in inflight :
          (LoginWritten(t) /\ status[t.email] = "online")
             => \A ev \in emitted' : ~IsStatus(ev, t.email, "online")]_vars

\* C5: a user_heartbeat(I) received while I has no tracked connection (no entry
\* in userConnBucket, or an empty one) issues no store write, emits nothing and
\* leaves lastActivity alone.
C5_HeartbeatWithoutConnectionsIgnored ==
    [][(/\ last'.op = "user_heartbeat"
        /\ \/ last'.email \notin DOMAIN userConnBucket
           \/ userConnBucket[last'.email] = {})
          => /\ inflight' = inflight
             /\ lastActivity' = lastActivity
             /\ status' = status
             /\ emitted' = {}]_vars

\* C6: a sweep calls markOffline exactly once for each identity whose
\* lastActivity is older than the timeout and whose connection set is empty, and
\* for no other; it removes the identity's lastActivity entry, so that a sweep
\* run again at once finds nothing to do for it; and that call, unless its
\* UPDATE throws, stores offline and broadcasts exactly one status_update(offline).
C6_SweepMarksOfflineOnce ==
    [][/\ last'.op = "sweep" =>
            \A e \in Emails :
               LET new == {t \in inflight' \ inflight : t.email = e}
               IN  IF Inactive(e)
                   THEN /\ Cardinality(new) = 1
                        /\ \A t \in new : t.op = "markOffline"
                        /\ e \notin DOMAIN lastActivity'
                        /\ ~Inactive(e)'
                   ELSE new = {}
       /\ \A t \in inflight :
            (t.op = "markOffline" /\ t.tag = "sweep" /\ Finished(t)
               /\ last'.res # "error")
               => /\ status'[t.email] = "offline"
                  /\ Cardinality(emitted') = 1
                  /\ \A ev \in emitted' : IsStatus(ev, t.email, "offline")]_vars

\* C6 witness: the sweep has just found an inactive identity and called markOffline
C6_SweptIdentity ==
    /\ last.op = "sweep" /\ last.members = {"a"}
    /\ "a" \notin DOMAIN lastActivity
    /\ \E t \in inflight : t.op = "markOffline" /\ t.tag = "sweep" /\ t.email = "a"

\* C7: every socket in a room's connection set has a reverse-index entry, and the
\* identity it names is an active member of the room.
C7_RoomConnectionsAuthorized ==
    \A g \in DOMAIN groupRooms : \A s \in groupRooms[g] :
        s \in DOMAIN connections /\ connections[s] \in ActiveMembers[g]

\* C8: a group-created notification for room g with member list M adds to
\* groupRooms[g] exactly the tracked, still open sockets of M and of the creator,
\* subscribes each of them, and emits one group_created event to the room, which
\* reaches no socket that the reverse index gives to an identity not listed.
C8_GroupCreatedReachesListedOnly ==
    [][last'.op = "emit_group_created" =>
          LET g == last'.group
              listed == last'.members \cup {last'.email}
              old == IF g \in DOMAIN groupRooms THEN groupRooms[g] ELSE {}
              now == IF g \in DOMAIN groupRooms' THEN groupRooms'[g] ELSE {}
              live == {s \in Sockets :
                         /\ sock[s] = "open"
                         /\ \E e \in listed :
                               e \in DOMAIN userConnBucket /\ s \in userConnBucket[e]}
          IN  /\ now = old \cup live
              /\ \A s \in live : g \in rooms'[s]
              /\ Cardinality(emitted') = 1
              /\ \A ev \in emitted' :
                    /\ ev.event = "group_created" /\ ev.group = g
                    /\ \A s \in ev.to :
                          s \in DOMAIN connections => connections[s] \in listed]_vars

\* C9: a user_logout whose UPDATE throws or matches no row emits nothing and
\* leaves userConnBucket, connections, lastActivity and groupRooms as they were.
C9_FailedLogoutChangesNothing ==
    [][\A t \in inflight :
          (t.op = "user_logout" /\ Finished(t) /\ last'.res \in {"error", "norow"})
             => emitted' = {} /\ UNCHANGED registries]_vars

\* C9 witness: the logout of a tracked socket has failed and the socket is still tracked
C9_LogoutFailedWhileTracked ==
    /\ last.op = "user_logout.done" /\ last.res = "error"
    /\ last.socket \in DOMAIN connections
    /\ connections[last.socket] = last.email
    /\ last.socket \in userConnBucket[last.email]

\* C10: the disconnect of a socket that is in none of the registries changes no
\* registry, starts no grace timer, issues no store write and emits nothing.
C10_UnknownDisconnectIsNoOp ==
    [][\A s \in Sockets :
          (last'.op = "disconnect" /\ last'.socket = s /\ InNoRegistry(s))
             => /\ UNCHANGED registries
                /\ timers' = timers
                /\ inflight' = inflight
                /\ status' = status
                /\ emitted' = {}]_vars

\* C10 witness: a socket that no registry knew has disconnected while another
\* identity was being tracked
C10_UnknownSocketClosed ==
    /\ last.op = "disconnect" /\ last.email = None
    /\ sock[last.socket] = "closed"
    /\ InNoRegistry(last.socket)
    /\ DOMAIN userConnBucket # {}

\* C11: once a socket's disconnect has been handled and no handler of that socket
\* is suspended at an await any more, the socket is in no identity's connection
\* set, has no reverse-index entry and is in no room's connection set.
C11_ClosedSocketLeavesNoTrace ==
    \A s \in Sockets :
        (sock[s] = "closed" /\ \A t \in inflight : t.socket # s) => InNoRegistry(s)

\* C12: connections[c] = I exactly when c is in userConnBucket[I].
C12_ReverseIndexAgrees ==
    \A s \in Sockets : \A e \in Emails :
        (s \in DOMAIN connections /\ connections[s] = e)
           <=> (e \in DOMAIN userConnBucket /\ s \in userConnBucket[e])

Tracked(e) == e \in DOMAIN userConnBucket /\ userConnBucket[e] # {}
TimerPending(e) == \E i \in 1..Len(timers) : timers[i].email = e
WriteInFlight(e) ==
    \E t \in inflight :
        /\ t.email = e
        /\ \/ t.op \in {"markOffline", "user_heartbeat", "user_logout"}
           \/ t.op = "user_login" /\ t.pc = "update"

\* C13: when the UPDATE of a markOffline call (made by a grace timer or by the
\* sweep) throws and leaves the identity stored online with no tracked
\* connection, a retry is still to come: another write for the identity is in
\* flight, a grace timer for it is pending, or the sweep still has it in its scan
\* set (a lastActivity entry and an empty connection set).
C13_FailedOfflineWriteIsRetried ==
    [][\A t \in inflight :
          (/\ t.op = "markOffline" /\ Finished(t) /\ last'.res = "error"
           /\ status'[t.email] = "online"
           /\ ~Tracked(t.email)')
             => \/ WriteInFlight(t.email)'
                \/ TimerPending(t.email)'
                \/ /\ t.email \in DOMAIN lastActivity'
                   /\ t.email \in DOMAIN userConnBucket']_vars

\* C14: a sweep that finds an identity whose lastActivity is older than the timeout
\* and whose listed connections are all dead calls markOffline for it.
C14_SweepForcesDeadIdentityOffline ==
    [][last'.op = "sweep" =>
          \A e \in Emails :
             (/\ e \in DOMAIN lastActivity
              /\ lastActivity[e] * SWEEP_INTERVAL >= INACTIVITY_TIMEOUT
              /\ Tracked(e)
              /\ userConnBucket[e] \cap Open = {})
                => \E t \in inflight' \ inflight : t.op = "markOffline" /\ t.email = e]_vars

\* C15: the grace timer that calls markOffline for an identity is the one its most
\* recent last-connection close started: no later timer for the identity is
\* still pending when it fires.
C15_OnlyLatestTimerMarksOffline ==
    [][(/\ last'.op = "graceTimer"
        /\ \E t \in inflight' \ inflight : t.op = "markOffline")
          => \A i \in 2..Len(timers) : timers[i].email # Head(timers).email]_vars

EmptyEntry(e) == e \in DOMAIN userConnBucket /\ userConnBucket[e] = {}

\* C16: an entry of userConnBucket with an empty connection set always has a
\* pending grace timer, and, timers firing fairly, it is eventually deleted or
\* holds a connection again.
C16_EmptyEntryDoesNotPersist ==
    /\ [](\A e \in Emails : EmptyEntry(e) => TimerPending(e))
    /\ \A e \in Emails : EmptyEntry(e) ~> ~EmptyEntry(e)

\* C16 witness: the grace timer has found the entry still empty and deleted it
C16_EmptyEntryDeleted ==
    /\ last.op = "graceTimer" /\ last.email = "a"
    /\ "a" \notin DOMAIN userConnBucket
    /\ \E t \in inflight : t.op = "markOffline" /\ t.tag = "grace" /\ t.email = "a"

\* C17: no entry of groupRooms holds an empty connection set.
C17_NoEmptyRoomEntry == \A g \in DOMAIN groupRooms : groupRooms[g] # {}

\* C17 witness: the only socket listed for a room has left it and the entry is gone
C17_LastSocketLeftRoom ==
    /\ last.op = "leave_group" /\ last.was = "listed"
    /\ last.group \notin DOMAIN groupRooms

\* C18: a group_message event is emitted only by a handler whose sender passed the
\* membership check and whose INSERT succeeded; the INSERT is only issued for an
\* active member; a non-member's message and a failed INSERT end the handler
\* without an event.
C18_GroupMessageAfterCheckAndStore ==
    [][/\ \A ev \in emitted' :
             ev.event = "group_message" =>
                \E t \in inflight :
                   /\ t.op = "group_message" /\ Finished(t) /\ t.group = ev.group
                   /\ t.email \in ActiveMembers[t.group]
                   /\ t.tag = "ok"
       /\ \A t \in inflight' :
             (t.op = "group_message" /\ t.pc # "check")
                => t.email \in ActiveMembers[t.group]
       /\ \A t \in inflight :
             (/\ t.op = "group_message" /\ Finished(t)
              /\ \/ t.pc = "check" /\ t.email \notin ActiveMembers[t.group]
                 \/ t.pc = "insert" /\ last'.res = "error")
                => /\ emitted' = {}
                   /\ \A u \in inflight' : u \in inflight]_vars

\* C18 witness: a member's message has been stored and emitted to the room
C18_MessageDelivered ==
    /\ last.op = "group_message.emit" /\ last.res = "ok"
    /\ \E ev \in emitted : ev.event = "group_message" /\ ev.to # {}

\* C19: an open socket is subscribed to the transport room of group g exactly when
\* it is listed in groupRooms[g].
C19_SubscriptionMatchesRegistry ==
    \A s \in Open : \A g \in Groups :
        g \in rooms[s] <=> (g \in DOMAIN groupRooms /\ s \in groupRooms[g])

\* C20: an identity with a tracked connection and no presence write in flight is
\* stored online.
C20_TrackedMeansOnline ==
    \A e \in students :
        (Tracked(e) /\ ~WriteInFlight(e)) => status[e] = "online"
====
